---- MODULE Spec2Model ----
(***************************************************************************)
(* Model of the flood-monitoring pipeline of sri_lanka_floods.py, of the   *)
(* classifier and the nearest-station ranking of flood_lookup.py and of    *)
(* the grouping of dashboard_legacy.py: status classification, the         *)
(* station/reading join, the distance between two points, the risk         *)
(* assessment of a point and the flooding summary.  Each public operation  *)
(* is one action; one invocation is independent of the next (Return).      *)
(***************************************************************************)
EXTENDS Integers, Sequences, FiniteSets, TLC

VARIABLES pc, args, stations_in, readings_in, classified, records, risk, summary, raised,
          nearest, measured, dashboard, best, pair, rivers

vars == <<pc, args, stations_in, readings_in, classified, records, risk, summary, raised,
          nearest, measured, dashboard, best, pair, rivers>>

(***************************************************************************)
(* Bounds of the model.                                                    *)
(***************************************************************************)
MaxLevel == 3
MaxStations == 2
MaxReadings == 2
MaxFeatures == 3
MaxCount == 3

(***************************************************************************)
(* Python values as they come out of the JSON feed.  A float is finite,    *)
(* NaN or an infinity; a raw field is None, a number or a string.          *)
(***************************************************************************)
Fin(n) == [f |-> "fin", v |-> n]
NaN == [f |-> "nan", v |-> 0]
PosInf == [f |-> "inf", v |-> 0]
NegInf == [f |-> "ninf", v |-> 0]

Null == [k |-> "null", x |-> Fin(0), s |-> ""]
Num(x) == [k |-> "num", x |-> x, s |-> ""]
Str(t) == [k |-> "str", x |-> Fin(0), s |-> t]

Levels == 0..MaxLevel
Floats == {Fin(n) : n \in Levels} \cup {NaN, PosInf, NegInf}
NumericStrings == {"1", " 2 ", "nan", "inf"}
OtherStrings == {"abc", ""}
RawValues == {Null} \cup {Num(x) : x \in Floats}
             \cup {Str(t) : t \in NumericStrings \cup OtherStrings}

\* a < b on Python floats: every comparison with NaN is False.
FloatLt(a, b) ==
    CASE a.f = "nan" \/ b.f = "nan" -> FALSE
      [] a.f = "ninf" -> b.f # "ninf"
      [] a.f = "inf" -> FALSE
      [] b.f = "ninf" -> FALSE
      [] b.f = "inf" -> TRUE
      [] OTHER -> a.v < b.v

\* float(str): surrounding blanks are stripped, "nan"/"inf" are accepted,
\* anything else that is not a decimal literal raises ValueError.
StrToFloat(t) ==
    CASE t = "0" -> [ok |-> TRUE, x |-> Fin(0), err |-> "none"]
      [] t = "1" -> [ok |-> TRUE, x |-> Fin(1), err |-> "none"]
      [] t = "2" -> [ok |-> TRUE, x |-> Fin(2), err |-> "none"]
      [] t = " 2 " -> [ok |-> TRUE, x |-> Fin(2), err |-> "none"]
      [] t = "3" -> [ok |-> TRUE, x |-> Fin(3), err |-> "none"]
      [] t = "nan" -> [ok |-> TRUE, x |-> NaN, err |-> "none"]
      [] t = "inf" -> [ok |-> TRUE, x |-> PosInf, err |-> "none"]
      [] t = "-inf" -> [ok |-> TRUE, x |-> NegInf, err |-> "none"]
      [] OTHER -> [ok |-> FALSE, x |-> Fin(0), err |-> "ValueError"]

\* float(v) with None read as 0.0
ToFloatNoneAsZero(v) ==
    CASE v.k = "null" -> [ok |-> TRUE, x |-> Fin(0), err |-> "none"]
      [] v.k = "num" -> [ok |-> TRUE, x |-> v.x, err |-> "none"]
      [] OTHER -> StrToFloat(v.s)

\* float(v)
ToFloat(v) ==
    CASE v.k = "null" -> [ok |-> FALSE, x |-> Fin(0), err |-> "TypeError"]
      [] v.k = "num" -> [ok |-> TRUE, x |-> v.x, err |-> "none"]
      [] OTHER -> StrToFloat(v.s)

\* the comparison chain with <= in place of <
TierInclusive(wl, alert, minor, major) ==
    IF ~FloatLt(alert, wl) THEN "NORMAL"
    ELSE IF ~FloatLt(minor, wl) THEN "ALERT"
    ELSE IF ~FloatLt(major, wl) THEN "MINOR_FLOOD"
    ELSE "MAJOR_FLOOD"

\* the comparison chain with the test against major before the one
\* against minor
TierMajorBeforeMinor(wl, alert, minor, major) ==
    IF FloatLt(wl, alert) THEN "NORMAL"
    ELSE IF FloatLt(wl, major) THEN "MINOR_FLOOD"
    ELSE IF FloatLt(wl, minor) THEN "ALERT"
    ELSE "MAJOR_FLOOD"

\* the comparison chain shared by both classifiers
Tier(wl, alert, minor, major) ==
    IF FloatLt(wl, alert) THEN "NORMAL"
    ELSE IF FloatLt(wl, minor) THEN "ALERT"
    ELSE IF FloatLt(wl, major) THEN "MINOR_FLOOD"
    ELSE "MAJOR_FLOOD"

\* sri_lanka_floods._classify
_classify(wl, alert, minor, major) ==
    IF ToFloat(wl).ok /\ ToFloat(alert).ok /\ ToFloat(minor).ok /\ ToFloat(major).ok
    THEN Tier(ToFloat(wl).x, ToFloat(alert).x, ToFloat(minor).x, ToFloat(major).x)
    ELSE "UNKNOWN"

\* the test "not x" in place of "x is None": 0 and "" are taken as absent
classify_statusIfNot(wl, alert, minor, major) ==
    IF \E v \in {wl, alert, minor, major} :
           v.k = "null" \/ (v.k = "str" /\ v.s = "") \/ (v.k = "num" /\ v.x = Fin(0))
    THEN "UNKNOWN"
    ELSE IF ToFloat(wl).ok /\ ToFloat(alert).ok /\ ToFloat(minor).ok /\ ToFloat(major).ok
    THEN Tier(ToFloat(wl).x, ToFloat(alert).x, ToFloat(minor).x, ToFloat(major).x)
    ELSE "UNKNOWN"

\* flood_lookup.classify_status, on the four fields of the attribute dict
classify_status(wl, alert, minor, major) ==
    IF wl.k = "null" \/ alert.k = "null" \/ minor.k = "null" \/ major.k = "null"
    THEN "UNKNOWN"
    ELSE IF ToFloat(wl).ok /\ ToFloat(alert).ok /\ ToFloat(minor).ok /\ ToFloat(major).ok
    THEN Tier(ToFloat(wl).x, ToFloat(alert).x, ToFloat(minor).x, ToFloat(major).x)
    ELSE "UNKNOWN"

(***************************************************************************)
(* The two feeds.  A key of a JSON object may be absent (Missing) or       *)
(* present with any raw value.  A station feature has attributes           *)
(* station/basin and a geometry that is absent, null or an object with x   *)
(* (longitude) and y (latitude).  A gauge feature has the attributes the   *)
(* pipeline reads.                                                         *)
(***************************************************************************)
Missing == [k |-> "missing", x |-> Fin(0), s |-> ""]

\* dict.get(key): None for an absent key
Get(v) == IF v.k = "missing" THEN Null ELSE v
\* dict.get(key, default)
GetOr(v, default) == IF v.k = "missing" THEN default ELSE v

\* truth value of a raw value: None, "" and 0 are falsy
Truthy(v) ==
    CASE v.k = "null" -> FALSE
      [] v.k = "missing" -> FALSE
      [] v.k = "str" -> v.s # ""
      [] OTHER -> v.x # Fin(0)

Geo(x, y) == [k |-> "dict", x |-> x, y |-> y]
GeoNull == [k |-> "null", x |-> Missing, y |-> Missing]

Station(name, basin, geometry) == [station |-> name, basin |-> basin, geometry |-> geometry]

Reading(gauge, wl, alert, minor, major, t) ==
    [gauge |-> gauge, water_level |-> wl, alertpull |-> alert,
     minorpull |-> minor, majorpull |-> major, CreationDate |-> t]

\* the {} that readings.get(name, {}) returns for an unmatched name
EmptyReading == Reading(Missing, Missing, Missing, Missing, Missing, Missing)

\* the test "if wl" in place of "if reading"
WaterLevelTruthy(r) == Truthy(Get(r.water_level))

\* truth value of an attribute dict: it has at least one key
DictTruthy(r) ==
    \/ r.gauge.k # "missing" \/ r.water_level.k # "missing"
    \/ r.alertpull.k # "missing" \/ r.minorpull.k # "missing"
    \/ r.majorpull.k # "missing" \/ r.CreationDate.k # "missing"

\* a strip() that leaves the label as it is
NoStrip(t) == t

\* str.strip() on the basin labels of the feed
Strip(t) ==
    CASE t = "  " -> ""
      [] t = " Kalu Ganga " -> "Kalu Ganga"
      [] OTHER -> t

\* int(ms) for the timestamp: numbers truncate, decimal strings parse,
\* everything else raises (and NaN/infinity raise too)
ToInt(v) ==
    CASE v.k = "num" /\ v.x.f = "fin" -> [ok |-> TRUE, v |-> v.x.v]
      [] v.k = "str" /\ v.s = "1000" -> [ok |-> TRUE, v |-> 1000]
      [] v.k = "str" /\ v.s = "2500" -> [ok |-> TRUE, v |-> 2500]
      [] OTHER -> [ok |-> FALSE, v |-> 0]

\* the ISO-8601 text of an epoch given in milliseconds, as its seconds and
\* microseconds parts
Iso(ms) == [k |-> "iso", sec |-> ms \div 1000, micro |-> (ms % 1000) * 1000]
NoTime == [k |-> "null", sec |-> 0, micro |-> 0]

\* sri_lanka_floods._parse_timestamp
_parse_timestamp(ms) ==
    IF ~Truthy(ms) THEN NoTime
    ELSE IF ToInt(ms).ok THEN Iso(ToInt(ms).v)
    ELSE NoTime

\* the dict built by _fetch_latest_readings from the features of the
\* response, in the order the server sent them: first feature per gauge
LatestKeys(resp) == {resp[i].gauge.s : i \in {j \in DOMAIN resp : Truthy(resp[j].gauge)}}
LastIndex(resp, g) ==
    CHOOSE i \in DOMAIN resp :
        /\ Truthy(resp[i].gauge) /\ resp[i].gauge.s = g
        /\ \A j \in DOMAIN resp :
              (Truthy(resp[j].gauge) /\ resp[j].gauge.s = g) => j <= i
FirstIndex(resp, g) ==
    CHOOSE i \in DOMAIN resp :
        /\ Truthy(resp[i].gauge) /\ resp[i].gauge.s = g
        /\ \A j \in DOMAIN resp :
              (Truthy(resp[j].gauge) /\ resp[j].gauge.s = g) => i <= j
_fetch_latest_readings(resp) ==
    [g \in LatestKeys(resp) |-> resp[FirstIndex(resp, g)]]

NoThresholds == [k |-> "null", alert |-> Null, minor |-> Null, major |-> Null]

\* one iteration of the loop of get_all_stations over a station feature:
\* the feature is skipped, or a record is appended, or geom.get raises
\* because the geometry is null
StationStep(s, latest) ==
    LET name == GetOr(s.station, Str(""))
        geom == s.geometry
    IN  IF ~Truthy(name) THEN [kind |-> "skip"]
        ELSE IF geom.k = "null" THEN [kind |-> "raise"]
        ELSE IF Get(geom.x).k = "null" THEN [kind |-> "skip"]
        ELSE
          LET reading == IF name.s \in DOMAIN latest THEN latest[name.s] ELSE EmptyReading
              wl == Get(reading.water_level)
              status == IF DictTruthy(reading)
                        THEN _classify(wl, Get(reading.alertpull),
                                       Get(reading.minorpull), Get(reading.majorpull))
                        ELSE "NO_DATA"
              basin == IF Truthy(Get(s.basin)) THEN Get(s.basin).s ELSE ""
          IN  [kind |-> "rec",
               rec |-> [name |-> name.s,
                        basin |-> Strip(basin),
                        lat |-> Get(geom.y),
                        lon |-> Get(geom.x),
                        status |-> status,
                        water_level |-> wl,
                        thresholds |->
                            IF DictTruthy(reading)
                            THEN [k |-> "dict",
                                  alert |-> Get(reading.alertpull),
                                  minor |-> Get(reading.minorpull),
                                  major |-> Get(reading.majorpull)]
                            ELSE NoThresholds,
                        updated |-> _parse_timestamp(Get(reading.CreationDate))]]

\* the loop with a station name taken once only: an entry whose name an
\* earlier record has is dropped
RECURSIVE JoinFromDistinct(_, _, _)
JoinFromDistinct(stations, latest, i) ==
    IF i > Len(stations) THEN <<>>
    ELSE LET step == StationStep(stations[i], latest)
         IN  IF /\ step.kind = "rec"
                /\ \A j \in 1..(i - 1) :
                      LET before == StationStep(stations[j], latest)
                      IN  before.kind = "rec" => before.rec.name # step.rec.name
             THEN <<step.rec>> \o JoinFromDistinct(stations, latest, i + 1)
             ELSE JoinFromDistinct(stations, latest, i + 1)

RECURSIVE JoinFrom(_, _, _)
JoinFrom(stations, latest, i) ==
    IF i > Len(stations) THEN <<>>
    ELSE LET step == StationStep(stations[i], latest)
         IN  IF step.kind = "rec"
             THEN <<step.rec>> \o JoinFrom(stations, latest, i + 1)
             ELSE JoinFrom(stations, latest, i + 1)

\* sri_lanka_floods.get_all_stations on the two responses: the records in
\* the order of the station features, or the exception that ends the call
get_all_stations(stations, resp) ==
    LET latest == _fetch_latest_readings(resp)
    IN  IF \E i \in DOMAIN stations : StationStep(stations[i], latest).kind = "raise"
        THEN [ok |-> FALSE, err |-> "AttributeError", recs |-> <<>>]
        ELSE [ok |-> TRUE, err |-> "none", recs |-> JoinFrom(stations, latest, 1)]

(***************************************************************************)
(* Geodesy.  Coordinates are integers in units of 0.0001 degree and        *)
(* distances integers in centimetres.  The modelled points lie within a    *)
(* few kilometres of each other, where sin(x/2)**2 is (x/2)**2 and         *)
(* 2 * atan2(sqrt(a), sqrt(1-a)) is 2 * sqrt(a) to less than a centimetre: *)
(* the distance is r * sqrt(dphi**2 + cos(phi1) * cos(phi2) * dlam**2),    *)
(* with the angles in radians (pi taken as 355/113) and the square root    *)
(* rounded down to 0.0001 degree.  On a meridian this is r * |dphi|.       *)
(***************************************************************************)
EarthRadiusKm == 6371

Abs(n) == IF n < 0 THEN -n ELSE n

\* the largest k of lo..hi with k * k <= n (lo when there is none)
RECURSIVE SqrtBetween(_, _, _)
SqrtBetween(n, lo, hi) ==
    IF lo >= hi THEN lo
    ELSE LET mid == (lo + hi + 1) \div 2
         IN  IF mid * mid <= n THEN SqrtBetween(n, mid, hi)
             ELSE SqrtBetween(n, lo, mid - 1)

\* cos of a latitude, in units of 0.0001: 1 - phi**2 / 2
Cos(lat) == 10000 - (((lat \div 100) * (lat \div 100)) * 1523) \div 10000000

\* n * cos(lat)
TimesCos(n, lat) == (n * Cos(lat)) \div 10000

\* a of the haversine formula, times 4, in squared units of 0.0001 degree
HalfChord(lat1, lon1, lat2, lon2) ==
    (lat2 - lat1) * (lat2 - lat1)
    + TimesCos(TimesCos((lon2 - lon1) * (lon2 - lon1), lat1), lat2)

\* 2 * sqrt(a), in units of 0.0001 degree: the square root lies between
\* |dphi| and |dphi| + |dlam|
CentralAngle(lat1, lon1, lat2, lon2) ==
    SqrtBetween(HalfChord(lat1, lon1, lat2, lon2),
                Abs(lat2 - lat1), Abs(lat2 - lat1) + Abs(lon2 - lon1))

\* atan2 with its arguments exchanged: r * (pi - c) in place of r * c
_haversineSwappedAtan2(lat1, lon1, lat2, lon2) ==
    ((EarthRadiusKm * 355) \div 113) * 100000
    - (CentralAngle(lat1, lon1, lat2, lon2) * EarthRadiusKm * 355) \div (18 * 113)

\* sri_lanka_floods._haversine, in centimetres
_haversine(lat1, lon1, lat2, lon2) ==
    (CentralAngle(lat1, lon1, lat2, lon2) * EarthRadiusKm * 355) \div (18 * 113)

\* flood_lookup.haversine, in centimetres
haversine(lat1, lon1, lat2, lon2) ==
    (CentralAngle(lat1, lon1, lat2, lon2) * EarthRadiusKm * 355) \div (18 * 113)

\* round(dist, 1): the distance in tenths of a kilometre, ties to even
RoundTenth(cm) ==
    LET q == cm \div 10000
        r == cm % 10000
    IN  IF r > 5000 \/ (r = 5000 /\ q % 2 = 1) THEN q + 1 ELSE q

\* list.sort(key=distance_km): a stable insertion of each entry after the
\* entries whose key is not larger
RECURSIVE InsertByDistance(_, _)
InsertByDistance(sorted, e) ==
    IF sorted = <<>> THEN <<e>>
    ELSE IF e.distance_km < Head(sorted).distance_km THEN <<e>> \o sorted
    ELSE <<Head(sorted)>> \o InsertByDistance(Tail(sorted), e)

RECURSIVE SortByDistance(_)
SortByDistance(list) ==
    IF list = <<>> THEN <<>>
    ELSE InsertByDistance(SortByDistance(SubSeq(list, 1, Len(list) - 1)), list[Len(list)])

\* the stations with both coordinates, whatever their distance
RECURSIVE WithCoordinates(_, _, _, _, _)
WithCoordinates(recs, i, lat, lon, radius_km) ==
    IF i > Len(recs) THEN <<>>
    ELSE LET s == recs[i]
             rest == WithCoordinates(recs, i + 1, lat, lon, radius_km)
         IN  IF s.lat.k = "null" \/ s.lon.k = "null" THEN rest
             ELSE <<[rec |-> s,
                     distance_km |-> RoundTenth(_haversine(lat, lon, s.lat.x.v, s.lon.x.v))]>>
                  \o rest

\* the stations check_risk keeps: both coordinates present and the
\* distance to the point at most radius_km, each with its rounded distance
RECURSIVE WithinRadius(_, _, _, _, _)
WithinRadius(recs, i, lat, lon, radius_km) ==
    IF i > Len(recs) THEN <<>>
    ELSE LET s == recs[i]
             rest == WithinRadius(recs, i + 1, lat, lon, radius_km)
         IN  IF s.lat.k = "null" \/ s.lon.k = "null" THEN rest
             ELSE LET dist == _haversine(lat, lon, s.lat.x.v, s.lon.x.v)
                  IN  IF dist <= radius_km * 100000
                      THEN <<[rec |-> s, distance_km |-> RoundTenth(dist)]>> \o rest
                      ELSE rest

NoStation == 0

\* the scan with ALERT taken whatever was found before
RECURSIVE WorstScanAlertOverrides(_, _, _)
WorstScanAlertOverrides(nearby, i, acc) ==
    IF i > Len(nearby) \/ acc.stop THEN acc
    ELSE LET st == nearby[i].rec.status
         IN  IF st = "MAJOR_FLOOD"
             THEN WorstScanAlertOverrides(nearby, i + 1,
                      [status |-> "MAJOR_FLOOD", station |-> i, stop |-> TRUE])
             ELSE IF st = "MINOR_FLOOD" /\ acc.status # "MAJOR_FLOOD"
             THEN WorstScanAlertOverrides(nearby, i + 1,
                      [status |-> "MINOR_FLOOD", station |-> i, stop |-> FALSE])
             ELSE IF st = "ALERT"
             THEN WorstScanAlertOverrides(nearby, i + 1,
                      [status |-> "ALERT", station |-> i, stop |-> FALSE])
             ELSE WorstScanAlertOverrides(nearby, i + 1, acc)

\* the scan with the first NORMAL station recorded when none is yet
RECURSIVE WorstScanNamesNormal(_, _, _)
WorstScanNamesNormal(nearby, i, acc) ==
    IF i > Len(nearby) \/ acc.stop THEN acc
    ELSE LET st == nearby[i].rec.status
         IN  IF st = "MAJOR_FLOOD"
             THEN WorstScanNamesNormal(nearby, i + 1,
                      [status |-> "MAJOR_FLOOD", station |-> i, stop |-> TRUE])
             ELSE IF st = "MINOR_FLOOD" /\ acc.status # "MAJOR_FLOOD"
             THEN WorstScanNamesNormal(nearby, i + 1,
                      [status |-> "MINOR_FLOOD", station |-> i, stop |-> FALSE])
             ELSE IF st = "ALERT" /\ acc.status = "NORMAL"
             THEN WorstScanNamesNormal(nearby, i + 1,
                      [status |-> "ALERT", station |-> i, stop |-> FALSE])
             ELSE IF st = "NORMAL" /\ acc.station = NoStation
             THEN WorstScanNamesNormal(nearby, i + 1,
                      [status |-> "NORMAL", station |-> i, stop |-> FALSE])
             ELSE WorstScanNamesNormal(nearby, i + 1, acc)

\* the scan of check_risk for the worst status: the state after entry i,
\* as the status, the index of the recorded station and whether the loop
\* has left through break
RECURSIVE WorstScan(_, _, _)
WorstScan(nearby, i, acc) ==
    IF i > Len(nearby) \/ acc.stop THEN acc
    ELSE LET st == nearby[i].rec.status
         IN  IF st = "MAJOR_FLOOD"
             THEN WorstScan(nearby, i + 1, [status |-> "MAJOR_FLOOD", station |-> i, stop |-> TRUE])
             ELSE IF st = "MINOR_FLOOD" /\ acc.status # "MAJOR_FLOOD"
             THEN WorstScan(nearby, i + 1, [status |-> "MINOR_FLOOD", station |-> i, stop |-> FALSE])
             ELSE IF st = "ALERT" /\ acc.status = "NORMAL"
             THEN WorstScan(nearby, i + 1, [status |-> "ALERT", station |-> i, stop |-> FALSE])
             ELSE WorstScan(nearby, i + 1, acc)

\* risk_map.get(worst_status, "UNKNOWN")
RiskLevel(worst_status) ==
    CASE worst_status = "MAJOR_FLOOD" -> "HIGH"
      [] worst_status = "MINOR_FLOOD" -> "HIGH"
      [] worst_status = "ALERT" -> "MEDIUM"
      [] worst_status = "NORMAL" -> "LOW"
      [] OTHER -> "UNKNOWN"

TopN == 5
FirstN(list, n) == SubSeq(list, 1, IF Len(list) < n THEN Len(list) ELSE n)

NoSummary == [k |-> "none", status |-> "", name |-> "", distance_km |-> 0]

\* the result of check_risk, from the sorted list of the stations within
\* the radius and the outcome of the scan
Assessment(nearby, worst) ==
    [risk_level |-> RiskLevel(worst.status),
     summary |-> IF worst.station # NoStation
                 THEN [k |-> "station",
                       status |-> nearby[worst.station].rec.status,
                       name |-> nearby[worst.station].rec.name,
                       distance_km |-> nearby[worst.station].distance_km]
                 ELSE NoSummary,
     advice |-> IF worst.station = NoStation THEN "no immediate flood risk"
                ELSE IF RiskLevel(worst.status) = "HIGH" THEN "move to higher ground"
                ELSE "monitor the situation",
     nearby |-> FirstN(nearby, TopN)]

NearbyOf(recs, lat, lon, radius_km) ==
    SortByDistance(WithinRadius(recs, 1, lat, lon, radius_km))

WorstOf(nearby) ==
    WorstScan(nearby, 1, [status |-> "NORMAL", station |-> NoStation, stop |-> FALSE])

\* the body of sri_lanka_floods.check_risk on the records of get_all_stations
check_risk(recs, lat, lon, radius_km) ==
    CHOOSE r \in {Assessment(nearby, WorstOf(nearby)) :
                  nearby \in {NearbyOf(recs, lat, lon, radius_km)}} : TRUE

\* the features find_nearest_stations keeps, each with its distance to the
\* point: a null or absent geometry is read as {}, and a feature without x
\* or without y is passed over
RECURSIVE Located(_, _, _, _)
Located(features, i, lat, lon) ==
    IF i > Len(features) THEN <<>>
    ELSE LET geom == features[i].geometry
             x == IF geom.k = "dict" THEN Get(geom.x) ELSE Null
             y == IF geom.k = "dict" THEN Get(geom.y) ELSE Null
             rest == Located(features, i + 1, lat, lon)
         IN  IF x.k = "null" \/ y.k = "null" THEN rest
             ELSE <<[feature |-> features[i],
                     dist_km |-> haversine(lat, lon, y.x.v, x.x.v)]>> \o rest

\* an insertion that puts an entry before the entries of the same distance
RECURSIVE InsertBeforeEqual(_, _)
InsertBeforeEqual(sorted, e) ==
    IF sorted = <<>> THEN <<e>>
    ELSE IF e.dist_km <= Head(sorted).dist_km THEN <<e>> \o sorted
    ELSE <<Head(sorted)>> \o InsertBeforeEqual(Tail(sorted), e)

\* results.sort(key=dist_km): stable, on the distance as computed
RECURSIVE InsertByDist(_, _)
InsertByDist(sorted, e) ==
    IF sorted = <<>> THEN <<e>>
    ELSE IF e.dist_km < Head(sorted).dist_km THEN <<e>> \o sorted
    ELSE <<Head(sorted)>> \o InsertByDist(Tail(sorted), e)

RECURSIVE SortByDist(_)
SortByDist(list) ==
    IF list = <<>> THEN <<>>
    ELSE InsertByDist(SortByDist(SubSeq(list, 1, Len(list) - 1)), list[Len(list)])

\* best before the first feature with both coordinates
NoBest == [k |-> "null", feature |-> Station(Missing, Missing, GeoNull), dist_km |-> 0]

\* the loop with "d <= best_dist": of the features at the least distance
\* the last one is kept
RECURSIVE NearestScanLastOfTies(_, _, _, _, _)
NearestScanLastOfTies(features, i, lat, lon, acc) ==
    IF i > Len(features) THEN acc
    ELSE LET geom == features[i].geometry
             x == IF geom.k = "dict" THEN Get(geom.x) ELSE Null
             y == IF geom.k = "dict" THEN Get(geom.y) ELSE Null
         IN  IF x.k = "null" \/ y.k = "null"
             THEN NearestScanLastOfTies(features, i + 1, lat, lon, acc)
             ELSE LET d == haversine(lat, lon, y.x.v, x.x.v)
                  IN  IF acc.k = "null" \/ d <= acc.dist_km
                      THEN NearestScanLastOfTies(features, i + 1, lat, lon,
                               [k |-> "dict", feature |-> features[i], dist_km |-> d])
                      ELSE NearestScanLastOfTies(features, i + 1, lat, lon, acc)

\* the loop of find_nearest_station from feature i on, with best so far:
\* a feature replaces it when it is the first one or strictly nearer
RECURSIVE NearestScan(_, _, _, _, _)
NearestScan(features, i, lat, lon, acc) ==
    IF i > Len(features) THEN acc
    ELSE LET geom == features[i].geometry
             x == IF geom.k = "dict" THEN Get(geom.x) ELSE Null
             y == IF geom.k = "dict" THEN Get(geom.y) ELSE Null
         IN  IF x.k = "null" \/ y.k = "null"
             THEN NearestScan(features, i + 1, lat, lon, acc)
             ELSE LET d == haversine(lat, lon, y.x.v, x.x.v)
                  IN  IF acc.k = "null" \/ d < acc.dist_km
                      THEN NearestScan(features, i + 1, lat, lon,
                               [k |-> "dict", feature |-> features[i], dist_km |-> d])
                      ELSE NearestScan(features, i + 1, lat, lon, acc)

\* flood_lookup.find_nearest_station: best, or RuntimeError when no feature
\* has both coordinates
find_nearest_station(features, lat, lon) ==
    CHOOSE r \in {IF found.k = "null"
                  THEN [ok |-> FALSE, err |-> "RuntimeError", best |-> NoBest]
                  ELSE [ok |-> TRUE, err |-> "none", best |-> found] :
                  found \in {NearestScan(features, 1, lat, lon, NoBest)}} : TRUE

\* flood_lookup.find_nearest_stations, for n >= 0: results[:n]
find_nearest_stations(features, lat, lon, n) ==
    FirstN(SortByDist(Located(features, 1, lat, lon)), n)

(***************************************************************************)
(* The inputs the model draws the two responses from.                      *)
(***************************************************************************)
SeqsUpTo(S, n) == UNION {[1..m -> S] : m \in 0..n}

Lon0 == Num(Fin(800000))
LatAt(d) == Num(Fin(70000 + d))
Ordered(wl, t) == Reading(Str("A"), wl, Num(Fin(1)), Num(Fin(2)), Num(Fin(3)), t)

JoinStations ==
    { Station(Str("A"), Str("Kelani Ganga"), Geo(Lon0, LatAt(0))),
      Station(Str("B"), Str("  "), Geo(Lon0, LatAt(450))),
      Station(Str("A"), Null, Geo(Lon0, Missing)),
      Station(Str("B"), Str(" Kalu Ganga "), Geo(Missing, LatAt(0))),
      Station(Str("A"), Missing, GeoNull),
      Station(Str(""), Str("Kelani Ganga"), GeoNull),
      Station(Missing, Str("Kelani Ganga"), Geo(Lon0, LatAt(0))) }

JoinReadings ==
    { Ordered(Num(Fin(0)), Num(Fin(1000))),
      Ordered(Num(Fin(3)), Num(Fin(2500))),
      Ordered(Null, Str("1000")),
      Ordered(Str(" 2 "), Str("abc")),
      Reading(Str("A"), Num(Fin(2)), Str("abc"), Num(Fin(2)), Num(Fin(3)), Null),
      Reading(Str("B"), Num(Fin(1)), Num(Fin(1)), Num(Fin(2)), Num(Fin(3)), Num(Fin(1000))),
      Reading(Null, Num(Fin(3)), Num(Fin(1)), Num(Fin(2)), Num(Fin(3)), Num(Fin(2500))) }

(***************************************************************************)
(* get_flooding_summary                                                    *)
(***************************************************************************)
\* -(x) on a float
Neg(x) ==
    CASE x.f = "fin" -> Fin(-x.v)
      [] x.f = "inf" -> NegInf
      [] x.f = "ninf" -> PosInf
      [] OTHER -> NaN

\* the sort key (0 if MAJOR_FLOOD else 1, -(water_level or 0)); negating a
\* string raises TypeError
SortKey(rec) ==
    LET wl == IF Truthy(rec.water_level) THEN rec.water_level ELSE Num(Fin(0))
    IN  [ok |-> wl.k = "num",
         tier |-> IF rec.status = "MAJOR_FLOOD" THEN 0 ELSE 1,
         neg |-> IF wl.k = "num" THEN Neg(wl.x) ELSE Fin(0)]

KeyLess(a, b) ==
    \/ SortKey(a).tier < SortKey(b).tier
    \/ SortKey(a).tier = SortKey(b).tier /\ FloatLt(SortKey(a).neg, SortKey(b).neg)

\* list.sort on a list of fewer than 64 entries, as CPython runs it: the
\* run at the start of the list is taken as it is (when ascending) or
\* reversed (when strictly descending), and each later entry is inserted
\* at the place a binary search finds for it.  With keys that order the
\* entries this is the stable sort; a NaN key compares False both ways.

\* count_run: the length of the run that starts the list, n entries of
\* which are known
RECURSIVE RunLength(_, _, _)
RunLength(list, n, descending) ==
    IF n >= Len(list) THEN n
    ELSE IF KeyLess(list[n + 1], list[n]) = descending
    THEN RunLength(list, n + 1, descending)
    ELSE n

Reverse(list) == [i \in DOMAIN list |-> list[Len(list) + 1 - i]]

\* the search of binarysort: the number of entries of sorted the pivot is
\* put after, from the bounds l and r
RECURSIVE Bisect(_, _, _, _)
Bisect(sorted, pivot, l, r) ==
    IF l >= r THEN l
    ELSE LET p == l + (r - l) \div 2
         IN  IF KeyLess(pivot, sorted[p + 1]) THEN Bisect(sorted, pivot, l, p)
             ELSE Bisect(sorted, pivot, p + 1, r)

\* binarysort: the first start entries are in order, the others are
\* inserted one by one
RECURSIVE BinarySort(_, _)
BinarySort(list, start) ==
    IF start >= Len(list) THEN list
    ELSE LET pivot == list[start + 1]
             l == Bisect(SubSeq(list, 1, start), pivot, 0, start)
         IN  BinarySort(SubSeq(list, 1, l) \o <<pivot>> \o SubSeq(list, l + 1, start)
                        \o SubSeq(list, start + 2, Len(list)),
                        start + 1)

\* flooding.sort(key=...)
SortByKey(list) ==
    IF Len(list) < 2 THEN list
    ELSE LET descending == KeyLess(list[2], list[1])
             n == RunLength(list, 2, descending)
             run == SubSeq(list, 1, n)
         IN  BinarySort((IF descending THEN Reverse(run) ELSE run)
                        \o SubSeq(list, n + 1, Len(list)), n)

\* by_status[status] = [s] in place of append: the last record only
HasStatusLast(recs, st) ==
    LET all == SelectSeq(recs, LAMBDA r : r.status = st)
    IN  IF all = <<>> THEN <<>> ELSE <<all[Len(all)]>>

\* by_status[status]: the records of this status, in their order
HasStatus(recs, st) == SelectSeq(recs, LAMBDA r : r.status = st)

Brief(r) == [name |-> r.name, basin |-> r.basin, status |-> r.status,
             water_level |-> r.water_level]

NoFlooding == [total_stations |-> 0, major_flood |-> 0, minor_flood |-> 0,
               alert |-> 0, normal |-> 0, flooding_stations |-> <<>>,
               affected_basins |-> {}]

\* the body of sri_lanka_floods.get_flooding_summary on the records of
\* get_all_stations, or the TypeError of its sort key
get_flooding_summary(recs) ==
    LET flooding == HasStatus(recs, "MAJOR_FLOOD") \o HasStatus(recs, "MINOR_FLOOD")
    IN  IF \E i \in DOMAIN flooding : ~SortKey(flooding[i]).ok
        THEN [ok |-> FALSE, err |-> "TypeError", out |-> NoFlooding]
        ELSE
          LET sorted == SortByKey(flooding)
          IN  [ok |-> TRUE, err |-> "none",
               out |-> [total_stations |-> Len(recs),
                        major_flood |-> Len(HasStatus(recs, "MAJOR_FLOOD")),
                        minor_flood |-> Len(HasStatus(recs, "MINOR_FLOOD")),
                        alert |-> Len(HasStatus(recs, "ALERT")),
                        normal |-> Len(HasStatus(recs, "NORMAL")),
                        flooding_stations |-> [i \in DOMAIN sorted |-> Brief(sorted[i])],
                        affected_basins |->
                            {sorted[i].basin : i \in {j \in DOMAIN sorted : sorted[j].basin # ""}}]]

(***************************************************************************)
(* dashboard_legacy.main: the records grouped by status and by basin       *)
(***************************************************************************)
\* the key of a record in by_basin
BasinKey(rec) == IF Strip(rec.basin) # "" THEN Strip(rec.basin) ELSE "Unknown"

\* the two defaultdict(list), each filled in the order of the records
by_status(stations) ==
    [g \in {stations[i].status : i \in DOMAIN stations} |->
        SelectSeq(stations, LAMBDA r : r.status = g)]
by_basin(stations) ==
    [g \in {BasinKey(stations[i]) : i \in DOMAIN stations} |->
        SelectSeq(stations, LAMBDA r : BasinKey(r) = g)]

(***************************************************************************)
(* Station sets around a query point: station i of a scenario is named     *)
(* StationNames[i], lies at an offset from the point along the meridian    *)
(* (or lacks a coordinate, or has a null geometry) and has one reading     *)
(* with the thresholds 1 < 2 < 3 and the given water level, or none.       *)
(***************************************************************************)
StationNames == <<"Hanwella", "Glencourse", "Kitulgala", "Holombuwa",
                  "Deraniyagala", "Norwood", "Nagalagam", "Putupaula", "Ellagawa">>
Query == [lat |-> 70000, lon |-> 800000]
Radii == {0, 5}
Offsets == {0, 447, 449, 450}
WaterLevels == {Missing, Null} \cup {Num(Fin(n)) : n \in 0..3}

Kind(g, d, wl, basin) == [g |-> g, d |-> d, wl |-> wl, basin |-> basin]

GeometryAt(g, d) ==
    IF g = "null" THEN GeoNull
    ELSE IF g = "no y" THEN Geo(Num(Fin(Query.lon)), Missing)
    ELSE Geo(Num(Fin(Query.lon)), Num(Fin(Query.lat + d)))

FeedStations(sc) ==
    [i \in DOMAIN sc |-> Station(Str(StationNames[i]), Str(sc[i].basin), GeometryAt(sc[i].g, sc[i].d))]

RECURSIVE FeedReadingsFrom(_, _)
FeedReadingsFrom(sc, i) ==
    IF i > Len(sc) THEN <<>>
    ELSE IF sc[i].wl.k = "missing" THEN FeedReadingsFrom(sc, i + 1)
    ELSE <<Reading(Str(StationNames[i]), sc[i].wl, Num(Fin(1)), Num(Fin(2)), Num(Fin(3)),
                   Num(Fin(2500)))>> \o FeedReadingsFrom(sc, i + 1)
FeedReadings(sc) == FeedReadingsFrom(sc, 1)

RiskKinds ==
    {Kind("point", d, wl, "Kelani Ganga") : d \in Offsets, wl \in WaterLevels}
    \cup {Kind("no y", 0, Num(Fin(3)), "Kelani Ganga"),
          Kind("null", 0, Missing, "Kelani Ganga")}

\* more stations around the point than the nearby list shows
MaxExtra == 1
CrowdKinds == {Kind("point", d, Num(Fin(0)), "Kelani Ganga") : d \in {0, 449, 450}}
CrowdScenarios == UNION {[1..m -> CrowdKinds] : m \in (TopN + 1)..(TopN + MaxExtra)}

RiskScenarios == SeqsUpTo(RiskKinds, MaxStations) \cup CrowdScenarios

SummaryKinds ==
    {Kind("point", 0, wl, basin) : wl \in WaterLevels \cup {Num(Fin(4)), Str(" 2 ")},
                          basin \in {"Kelani Ganga", "  ", " Kalu Ganga "}}
SummaryScenarios == SeqsUpTo(SummaryKinds, MaxStations)

\* Feeds for the order of flooding_stations: every station has a reading at
\* or above its minor threshold, so every record is MAJOR_FLOOD or
\* MINOR_FLOOD; the major threshold is the station's own, and a water level
\* may be the NaN that the feed's JSON can carry.
MaxFlooding == 3
OrderKinds ==
    [wl : {Num(Fin(2)), Num(Fin(3)), Num(Fin(4)), Num(NaN)}, major : {3, 5}]
OrderScenarios == SeqsUpTo(OrderKinds, MaxFlooding)
OrderStations(sc) ==
    [i \in DOMAIN sc |-> Station(Str(StationNames[i]), Str("Kelani Ganga"), GeometryAt("point", 0))]
OrderReadings(sc) ==
    [i \in DOMAIN sc |-> Reading(Str(StationNames[i]), sc[i].wl, Num(Fin(1)), Num(Fin(2)),
                                 Num(Fin(sc[i].major)), Num(Fin(2500)))]
SummaryFeeds ==
    {[stations |-> FeedStations(sc), readings |-> FeedReadings(sc)] : sc \in SummaryScenarios}
    \cup {[stations |-> OrderStations(sc), readings |-> OrderReadings(sc)] : sc \in OrderScenarios}

\* the station features handed to find_nearest_stations: feature i is
\* named StationNames[i]; two of the positions are as far from the point as
\* each other
PointAt(dy, dx) == [lat |-> Query.lat + dy, lon |-> Query.lon + dx]
GeoAt(p) == Geo(Num(Fin(p.lon)), Num(Fin(p.lat)))
FeatureGeometries ==
    {GeoAt(PointAt(0, 0)), GeoAt(PointAt(447, 0)), GeoAt(PointAt(-447, 0)),
     GeoAt(PointAt(300, 300)), GeoAt(PointAt(450, 0)),
     Geo(Missing, Num(Fin(Query.lat))), Geo(Num(Fin(Query.lon)), Null), GeoNull}
Features(geoms) ==
    [i \in DOMAIN geoms |-> Station(Str(StationNames[i]), Str("Kelani Ganga"), geoms[i])]

\* the points distances are measured between
GridPoints == {PointAt(dy, dx) : dy \in {-300, 0, 300, 447}, dx \in {-100, 0, 300}}

NoArgs == [wl |-> Null, alert |-> Null, minor |-> Null, major |-> Null,
           lat |-> 0, lon |-> 0, radius_km |-> 0, n |-> 0, lat2 |-> 0, lon2 |-> 0,
           wl2 |-> Null]
NoDashboard == [by_status |-> <<>>, by_basin |-> <<>>]
NoDistances == [ab |-> 0, ba |-> 0, aa |-> 0, bb |-> 0]
NoMeasured == [engine |-> NoDistances, lookup |-> NoDistances]
NoClassified == [a |-> "none", b |-> "none"]
NoPair == [first |-> NoClassified, second |-> NoClassified]
NoRivers == [offset |-> 0, all_features |-> <<>>, requests |-> <<>>, pages |-> <<>>]
NoRisk == [risk_level |-> "none", summary |-> NoSummary, advice |-> "", nearby |-> <<>>]

Init ==
    /\ pc = "idle"
    /\ args = NoArgs
    /\ stations_in = <<>>
    /\ readings_in = <<>>
    /\ classified = NoClassified
    /\ records = <<>>
    /\ risk = NoRisk
    /\ summary = NoFlooding
    /\ raised = "none"
    /\ nearest = <<>>
    /\ measured = NoMeasured
    /\ dashboard = NoDashboard
    /\ best = NoBest
    /\ pair = NoPair
    /\ rivers = NoRivers

\* a caller classifies one reading with each of the two classifiers
Classify ==
    /\ pc = "idle"
    /\ \E wl \in RawValues, alert \in RawValues, minor \in RawValues, major \in RawValues :
          /\ args' = [NoArgs EXCEPT !.wl = wl, !.alert = alert, !.minor = minor, !.major = major]
          /\ classified' = [a |-> _classify(wl, alert, minor, major),
                            b |-> classify_status(wl, alert, minor, major)]
    /\ pc' = "classify"
    /\ UNCHANGED <<stations_in, readings_in, records, risk, summary, raised, nearest, measured,
                   dashboard, best, pair, rivers>>

\* the raw values float() turns into a number, finite or not
NumericValues == {Num(x) : x \in Floats} \cup {Str(t) : t \in NumericStrings}
Thresholds == {Num(x) : x \in Floats}

\* a caller classifies two water levels against the same thresholds, with
\* each of the two classifiers
ClassifyPair ==
    /\ pc = "idle"
    /\ \E wl \in NumericValues, wl2 \in NumericValues,
          alert \in Thresholds, minor \in Thresholds, major \in Thresholds :
          /\ args' = [NoArgs EXCEPT !.wl = wl, !.wl2 = wl2, !.alert = alert,
                                    !.minor = minor, !.major = major]
          /\ pair' = [first |-> [a |-> _classify(wl, alert, minor, major),
                                 b |-> classify_status(wl, alert, minor, major)],
                      second |-> [a |-> _classify(wl2, alert, minor, major),
                                  b |-> classify_status(wl2, alert, minor, major)]]
    /\ pc' = "classify_pair"
    /\ UNCHANGED <<stations_in, readings_in, classified, records, risk, summary, raised,
                   nearest, measured, dashboard, best, rivers>>

\* get_all_stations(): both feeds are fetched and joined
GetAllStations ==
    /\ pc = "idle"
    /\ \E st \in SeqsUpTo(JoinStations, MaxStations), rd \in SeqsUpTo(JoinReadings, MaxReadings) :
          \E all \in {get_all_stations(st, rd)} :
              /\ stations_in' = st
              /\ readings_in' = rd
              /\ records' = all.recs
              /\ raised' = all.err
    /\ pc' = "get_all_stations"
    /\ UNCHANGED <<args, classified, risk, summary, nearest, measured,
                   dashboard, best, pair, rivers>>

\* check_risk(lat, lon, radius_km): get_all_stations(), then the assessment
CheckRisk ==
    /\ pc = "idle"
    /\ \E sc \in RiskScenarios, radius_km \in Radii :
          \E all \in {get_all_stations(FeedStations(sc), FeedReadings(sc))} :
              /\ stations_in' = FeedStations(sc)
              /\ readings_in' = FeedReadings(sc)
              /\ args' = [NoArgs EXCEPT !.lat = Query.lat, !.lon = Query.lon,
                                        !.radius_km = radius_km]
              /\ records' = all.recs
              /\ raised' = all.err
              /\ risk' = IF all.ok THEN check_risk(all.recs, Query.lat, Query.lon, radius_km)
                         ELSE NoRisk
    /\ pc' = "check_risk"
    /\ UNCHANGED <<classified, summary, nearest, measured,
                   dashboard, best, pair, rivers>>

\* get_flooding_summary(): get_all_stations(), then the counts and lists
GetFloodingSummary ==
    /\ pc = "idle"
    /\ \E feed \in SummaryFeeds :
          \E all \in {get_all_stations(feed.stations, feed.readings)} :
            \E res \in {get_flooding_summary(all.recs)} :
              /\ stations_in' = feed.stations
              /\ readings_in' = feed.readings
              /\ records' = all.recs
              /\ raised' = IF all.ok THEN res.err ELSE all.err
              /\ summary' = IF all.ok THEN res.out ELSE NoFlooding
    /\ pc' = "get_flooding_summary"
    /\ UNCHANGED <<args, classified, risk, nearest, measured,
                   dashboard, best, pair, rivers>>

\* find_nearest_stations(features, lat, lon, n) on the station features
FindNearestStations ==
    /\ pc = "idle"
    /\ \E geoms \in SeqsUpTo(FeatureGeometries, MaxFeatures), n \in 0..MaxCount :
          /\ stations_in' = Features(geoms)
          /\ args' = [NoArgs EXCEPT !.lat = Query.lat, !.lon = Query.lon, !.n = n]
          /\ nearest' = find_nearest_stations(Features(geoms), Query.lat, Query.lon, n)
    /\ pc' = "find_nearest_stations"
    /\ UNCHANGED <<readings_in, classified, records, risk, summary, raised, measured,
                   dashboard, best, pair, rivers>>

\* find_nearest_station(features, lat, lon), and the ranking of the same
\* features with n = 1
FindNearestStation ==
    /\ pc = "idle"
    /\ \E geoms \in SeqsUpTo(FeatureGeometries, MaxFeatures) :
          \E res \in {find_nearest_station(Features(geoms), Query.lat, Query.lon)} :
              /\ stations_in' = Features(geoms)
              /\ args' = [NoArgs EXCEPT !.lat = Query.lat, !.lon = Query.lon, !.n = 1]
              /\ best' = res.best
              /\ raised' = res.err
              /\ nearest' = find_nearest_stations(Features(geoms), Query.lat, Query.lon, 1)
    /\ pc' = "find_nearest_station"
    /\ UNCHANGED <<readings_in, classified, records, risk, summary, measured, dashboard,
                   pair, rivers>>

\* the distance between two points, each way and from each point to
\* itself, by the function of each module
Haversine ==
    /\ pc = "idle"
    /\ \E a \in GridPoints, b \in GridPoints :
          /\ args' = [NoArgs EXCEPT !.lat = a.lat, !.lon = a.lon,
                                    !.lat2 = b.lat, !.lon2 = b.lon]
          /\ measured' =
                [engine |-> [ab |-> _haversine(a.lat, a.lon, b.lat, b.lon),
                             ba |-> _haversine(b.lat, b.lon, a.lat, a.lon),
                             aa |-> _haversine(a.lat, a.lon, a.lat, a.lon),
                             bb |-> _haversine(b.lat, b.lon, b.lat, b.lon)],
                 lookup |-> [ab |-> haversine(a.lat, a.lon, b.lat, b.lon),
                             ba |-> haversine(b.lat, b.lon, a.lat, a.lon),
                             aa |-> haversine(a.lat, a.lon, a.lat, a.lon),
                             bb |-> haversine(b.lat, b.lon, b.lat, b.lon)]]
    /\ pc' = "haversine"
    /\ UNCHANGED <<stations_in, readings_in, classified, records, risk, summary, raised,
                   nearest, dashboard, best, pair, rivers>>

\* dashboard_legacy.main, up to the grouping of the records
Dashboard ==
    /\ pc = "idle"
    /\ \E st \in SeqsUpTo(JoinStations, MaxStations), rd \in SeqsUpTo(JoinReadings, 1) :
          \E all \in {get_all_stations(st, rd)} :
              /\ stations_in' = st
              /\ readings_in' = rd
              /\ records' = all.recs
              /\ raised' = all.err
              /\ dashboard' = IF all.ok
                              THEN [by_status |-> by_status(all.recs),
                                    by_basin |-> by_basin(all.recs)]
                              ELSE NoDashboard
    /\ pc' = "dashboard"
    /\ UNCHANGED <<args, classified, risk, summary, nearest, measured, best, pair, rivers>>

\* the call has returned; nothing persists between invocations
(***************************************************************************)
(* _fetch_rivers_paginated (and the same loop of map.fetch_rivers): one    *)
(* request per turn of the loop.  The page size Batch stands for the 1000  *)
(* of the source.  The server answers a request with an HTTP error or with *)
(* a JSON object whose "features" is a list of any length up to one more   *)
(* than it was asked for, null, or absent; after MaxPages pages that do    *)
(* not end the loop it answers with one that does.                         *)
(***************************************************************************)
Batch == 2
MaxPages == 4

\* the features of the page that answers the k-th request, n of them
Page(k, n) == [i \in 1..n |-> [page |-> k, index |-> i]]

NoFeatures == [k |-> "missing", items |-> <<>>]
Responses(k) ==
    {[status |-> "ok", features |-> [k |-> "list", items |-> Page(k, n)]] : n \in 0..(Batch + 1)}
    \cup {[status |-> "ok", features |-> [k |-> "null", items |-> <<>>]],
          [status |-> "ok", features |-> NoFeatures],
          [status |-> "HTTPError", features |-> NoFeatures]}

\* r.json().get("features", []): the list, the default [] for an absent
\* key, None for null (None is as falsy as [] and ends the loop before it
\* is used)
FeaturesOf(resp) == resp.features.items

\* a page after which the loop asks for the next one
Continues(resp) ==
    resp.status = "ok" /\ Len(FeaturesOf(resp)) # 0 /\ ~(Len(FeaturesOf(resp)) < Batch)

\* features added in front of the list in place of extend
ExtendInFront(all_features, features) == features \o all_features

\* all_features.extend(features)
Extend(all_features, features) == all_features \o features

\* the call, up to the loop
FetchRivers ==
    /\ pc = "idle"
    /\ rivers' = [offset |-> 0, all_features |-> <<>>, requests |-> <<>>, pages |-> <<>>]
    /\ pc' = "fetching_rivers"
    /\ UNCHANGED <<args, stations_in, readings_in, classified, records, risk, summary,
                   raised, nearest, measured, dashboard, best, pair>>

\* one turn of the loop: the request at the current offset and what the
\* loop does with the answer
FetchPage ==
    /\ pc = "fetching_rivers"
    /\ \E resp \in Responses(Len(rivers.requests) + 1) :
          /\ Continues(resp) => Len(rivers.pages) < MaxPages
          /\ LET requests == Append(rivers.requests, rivers.offset)
                 features == FeaturesOf(resp)
             IN  IF resp.status # "ok"
                 THEN /\ raised' = resp.status
                      /\ rivers' = [rivers EXCEPT !.requests = requests]
                      /\ pc' = "_fetch_rivers_paginated"
                 ELSE IF Len(features) = 0
                 THEN /\ raised' = raised
                      /\ rivers' = [rivers EXCEPT !.requests = requests,
                                                  !.pages = Append(@, features)]
                      /\ pc' = "_fetch_rivers_paginated"
                 ELSE /\ raised' = raised
                      /\ rivers' = [offset |-> IF Len(features) < Batch THEN rivers.offset
                                               ELSE rivers.offset + Batch,
                                    all_features |-> Extend(rivers.all_features, features),
                                    requests |-> requests,
                                    pages |-> Append(rivers.pages, features)]
                      /\ pc' = IF Len(features) < Batch THEN "_fetch_rivers_paginated"
                               ELSE "fetching_rivers"
    /\ UNCHANGED <<args, stations_in, readings_in, classified, records, risk, summary,
                   nearest, measured, dashboard, best, pair>>

\* the end of an invocation; a call in its loop has not returned yet
Return ==
    /\ pc \notin {"idle", "fetching_rivers"}
    /\ pc' = "idle"
    /\ args' = NoArgs
    /\ stations_in' = <<>>
    /\ readings_in' = <<>>
    /\ classified' = NoClassified
    /\ records' = <<>>
    /\ risk' = NoRisk
    /\ summary' = NoFlooding
    /\ raised' = "none"
    /\ nearest' = <<>>
    /\ measured' = NoMeasured
    /\ dashboard' = NoDashboard
    /\ best' = NoBest
    /\ pair' = NoPair
    /\ rivers' = NoRivers

Next ==
    \/ Classify \/ ClassifyPair \/ GetAllStations \/ CheckRisk \/ GetFloodingSummary
    \/ FindNearestStations \/ FindNearestStation \/ Haversine \/ Dashboard
    \/ FetchRivers \/ FetchPage \/ Return

Spec == Init /\ [][Next]_vars

\* the operations one at a time
NextClassifier == Classify \/ ClassifyPair \/ Return
SpecClassifier == Init /\ [][NextClassifier]_vars

NextStations == GetAllStations \/ Return
SpecStations == Init /\ [][NextStations]_vars

NextRisk == CheckRisk \/ Return
SpecRisk == Init /\ [][NextRisk]_vars

NextSummary == GetFloodingSummary \/ Return
SpecSummary == Init /\ [][NextSummary]_vars

NextNearest == FindNearestStations \/ FindNearestStation \/ Return
SpecNearest == Init /\ [][NextNearest]_vars

NextDashboard == Dashboard \/ Return
SpecDashboard == Init /\ [][NextDashboard]_vars

NextGeodesy == Haversine \/ Return
SpecGeodesy == Init /\ [][NextGeodesy]_vars

\* The loop is sequential code and every request ends within its timeout
\* with an answer or an exception, so a turn that can be taken is taken.
NextRivers == FetchRivers \/ FetchPage \/ Return
SpecRivers == Init /\ [][NextRivers]_vars /\ WF_vars(FetchPage)

(***************************************************************************)
(* Properties                                                              *)
(***************************************************************************)
Done(op) == pc = op /\ raised = "none"
Joined == pc \in {"get_all_stations", "check_risk", "get_flooding_summary"} /\ raised = "none"

\* a value that is missing (None, or an absent key) or a string that is no
\* number
NotNumber(v) == v.k \in {"null", "missing"} \/ (v.k = "str" /\ v.s \in OtherStrings)
HasBadField(r) ==
    NotNumber(r.water_level) \/ NotNumber(r.alertpull)
    \/ NotNumber(r.minorpull) \/ NotNumber(r.majorpull)

\* the readings of the response whose join key is this station name
KeyIs(r, name) == r.gauge.k = "str" /\ r.gauge.s # "" /\ r.gauge.s = name
WithKey(name) == {j \in DOMAIN readings_in : KeyIs(readings_in[j], name)}
FirstWithKey(name) == CHOOSE j \in WithKey(name) : \A k \in WithKey(name) : j <= k

\* C1: a 4-tuple with a missing or non-numeric field is classified UNKNOWN
\* by both classifiers, and a station whose matched reading has such a field
\* has status UNKNOWN in the records of get_all_stations.
C1_BadFieldIsUnknown ==
    /\ (pc = "classify" /\ (NotNumber(args.wl) \/ NotNumber(args.alert)
                            \/ NotNumber(args.minor) \/ NotNumber(args.major)))
          => classified = [a |-> "UNKNOWN", b |-> "UNKNOWN"]
    /\ Joined =>
          \A i \in DOMAIN records :
              (WithKey(records[i].name) # {}
               /\ HasBadField(readings_in[FirstWithKey(records[i].name)]))
                  => records[i].status = "UNKNOWN"

C1_Witness ==
    /\ Done("get_all_stations")
    /\ \E i \in DOMAIN records :
          /\ WithKey(records[i].name) # {}
          /\ readings_in[FirstWithKey(records[i].name)].alertpull = Str("abc")
          /\ records[i].status = "UNKNOWN"

\* C2: on four finite numbers the classifier returns the tier of the first
\* satisfied comparison wl < alert, wl < minor, wl < major (MAJOR_FLOOD when
\* none is), whatever the order of the thresholds; with alert <= minor <=
\* major this is the interval each tier names.
IsNumber(v) == (v.k = "num" /\ v.x.f = "fin") \/ (v.k = "str" /\ v.s \in {"1", " 2 "})
NumberOf(v) == IF v.k = "num" THEN v.x.v ELSE IF v.s = "1" THEN 1 ELSE 2
FirstSatisfied(w, a, mi, ma) ==
    CASE w < a -> "NORMAL"
      [] w >= a /\ w < mi -> "ALERT"
      [] w >= a /\ w >= mi /\ w < ma -> "MINOR_FLOOD"
      [] OTHER -> "MAJOR_FLOOD"
C2_FirstSatisfiedComparison ==
    (pc = "classify" /\ IsNumber(args.wl) /\ IsNumber(args.alert)
     /\ IsNumber(args.minor) /\ IsNumber(args.major))
    => LET w == NumberOf(args.wl)
           a == NumberOf(args.alert)
           mi == NumberOf(args.minor)
           ma == NumberOf(args.major)
       IN  /\ classified.a = FirstSatisfied(w, a, mi, ma)
           /\ classified.b = classified.a
           /\ (a <= mi /\ mi <= ma) =>
                 /\ classified.a = "NORMAL" <=> w < a
                 /\ classified.a = "ALERT" <=> (a <= w /\ w < mi)
                 /\ classified.a = "MINOR_FLOOD" <=> (mi <= w /\ w < ma)
                 /\ classified.a = "MAJOR_FLOOD" <=> w >= ma

C2_Witness ==
    /\ pc = "classify"
    /\ args.wl = Num(Fin(2)) /\ args.alert = Num(Fin(3))
    /\ args.minor = Str("1") /\ args.major = Num(Fin(0))
    /\ classified.a = "NORMAL"

\* the observation time of a reading, when its CreationDate is a number of
\* epoch milliseconds other than 0
Timed(r) ==
    r.CreationDate.k = "num" /\ r.CreationDate.x.f = "fin" /\ r.CreationDate.x.v # 0
TimeOf(r) == r.CreationDate.x.v

\* the record carries the water level, the thresholds and the timestamp of
\* this timed reading
Carries(rec, r) ==
    /\ rec.water_level = r.water_level
    /\ rec.thresholds = [k |-> "dict", alert |-> r.alertpull,
                         minor |-> r.minorpull, major |-> r.majorpull]
    /\ rec.updated.k = "iso"
    /\ rec.updated.sec * 1000 + rec.updated.micro \div 1000 = TimeOf(r)

NewestFirst(name) ==
    \A j, k \in WithKey(name) :
        /\ Timed(readings_in[j])
        /\ j < k => TimeOf(readings_in[j]) >= TimeOf(readings_in[k])

C4_UnmatchedIsNoData ==
    Done("get_all_stations") =>
        \A i \in DOMAIN records :
            LET matched == \E j \in DOMAIN readings_in :
                               /\ readings_in[j].gauge.k = "str"
                               /\ readings_in[j].gauge.s = records[i].name
            IN  /\ ~matched => /\ records[i].status = "NO_DATA"
                               /\ records[i].water_level = Null
                               /\ records[i].thresholds = NoThresholds
                               /\ records[i].updated = NoTime
                /\ records[i].thresholds.k = "dict" <=> matched
                /\ records[i].status = "NO_DATA" <=> ~matched

C4_Witness ==
    /\ Done("get_all_stations")
    /\ \E i \in DOMAIN records :
          /\ records[i].name = "B"
          /\ records[i].status = "NO_DATA"
          /\ \E j \in DOMAIN readings_in : readings_in[j].gauge = Str("A")

\* C5 as stated: every record of get_all_stations has a non-empty name, a
\* latitude and a longitude: a station entry without a name or without one
\* of its coordinates is left out.
C5_RecordsHaveNameAndCoordinates ==
    Done("get_all_stations") =>
        \A i \in DOMAIN records :
            /\ records[i].name # ""
            /\ records[i].lat # Null
            /\ records[i].lon # Null

\* the records that have both coordinates and lie within radius_km of the
\* query point
DistanceTo(rec) == _haversine(args.lat, args.lon, rec.lat.x.v, rec.lon.x.v)
InRadius ==
    {i \in DOMAIN records :
        /\ records[i].lat # Null /\ records[i].lon # Null
        /\ DistanceTo(records[i]) <= args.radius_km * 100000}
Flood == {"MAJOR_FLOOD", "MINOR_FLOOD"}

\* C6 as stated: with no station at all, or none within radius_km of the
\* point, check_risk answers risk level UNKNOWN.
C6_NoStationInRangeIsUnknown ==
    (Done("check_risk") /\ InRadius = {}) => risk.risk_level = "UNKNOWN"

\* C7: the risk level is HIGH exactly when a station within the radius is in
\* MAJOR_FLOOD or MINOR_FLOOD, MEDIUM exactly when none is and one is in
\* ALERT, and LOW when the worst one is NORMAL; stations in NO_DATA or
\* UNKNOWN change nothing, wherever they are in the distance order.
C7_RiskLevelFromWorstStatus ==
    Done("check_risk") =>
        LET high == \E i \in InRadius : records[i].status \in Flood
            alert == \E i \in InRadius : records[i].status = "ALERT"
            normal == \E i \in InRadius : records[i].status = "NORMAL"
        IN  /\ risk.risk_level = "HIGH" <=> high
            /\ risk.risk_level = "MEDIUM" <=> (~high /\ alert)
            /\ (~high /\ ~alert /\ normal) => risk.risk_level = "LOW"

C7_Witness ==
    /\ Done("check_risk")
    /\ Len(risk.nearby) = MaxStations
    /\ risk.nearby[1].rec.status = "MINOR_FLOOD"
    /\ risk.nearby[MaxStations].rec.status \in {"ALERT", "UNKNOWN", "NO_DATA"}
    /\ risk.risk_level = "HIGH"

\* C8 as stated: when the worst status within the radius is MAJOR_FLOOD,
\* MINOR_FLOOD or ALERT, the summary names the first station, in ascending
\* order of distance, that has that status: no station of the list with
\* that status is nearer than the one named.
C8_RepresentativeIsNearestWorst ==
    (Done("check_risk") /\ Len(records) <= TopN
     /\ \E i \in InRadius : records[i].status \in Flood \cup {"ALERT"})
    => /\ risk.summary.k = "station"
       /\ \E i \in DOMAIN risk.nearby :
             /\ risk.nearby[i].rec.name = risk.summary.name
             /\ risk.nearby[i].rec.status = risk.summary.status
             /\ risk.nearby[i].distance_km = risk.summary.distance_km
       /\ \A j \in DOMAIN risk.nearby :
             risk.nearby[j].rec.status = risk.summary.status
                 => risk.summary.distance_km <= risk.nearby[j].distance_km

\* the records with a coordinate that are nearer to the point than record i
\* (or as near and earlier in the list)
Nearer(i) ==
    {j \in DOMAIN records :
        /\ records[j].lat # Null /\ records[j].lon # Null
        /\ \/ DistanceTo(records[j]) < DistanceTo(records[i])
           \/ DistanceTo(records[j]) = DistanceTo(records[i]) /\ j < i}
Shown(i) == \E n \in DOMAIN risk.nearby : risk.nearby[n].rec.name = records[i].name

\* C9 as stated: the list check_risk returns holds the 5 nearest stations
\* with a coordinate, whatever the radius: a station farther than radius_km
\* is in it when it is among those 5.
C9_NearestFiveWhateverTheRadius ==
    Done("check_risk") =>
        \A i \in DOMAIN records :
            (records[i].lat # Null /\ records[i].lon # Null
             /\ Cardinality(Nearer(i)) < TopN) => Shown(i)

\* C9 (amended): the list check_risk returns holds the first 5 entries of
\* the list of the stations within radius_km, in ascending order of rounded
\* distance: each entry lies within the radius, a station farther than
\* radius_km is never in it, and a station within the radius that is left
\* out is no nearer (rounded) than the 5 that are in.
C9_FirstFiveWithinRadius ==
    Done("check_risk") =>
        /\ Len(risk.nearby) = IF Cardinality(InRadius) < TopN
                              THEN Cardinality(InRadius) ELSE TopN
        /\ \A n \in DOMAIN risk.nearby :
              /\ \E i \in InRadius :
                    /\ risk.nearby[n].rec = records[i]
                    /\ risk.nearby[n].distance_km * 10000 - DistanceTo(records[i])
                          \in -5000..5000
              /\ \A m \in DOMAIN risk.nearby :
                    m < n => /\ risk.nearby[m].distance_km <= risk.nearby[n].distance_km
                             /\ risk.nearby[m].rec.name # risk.nearby[n].rec.name
        /\ \A i \in DOMAIN records :
              /\ i \notin InRadius => ~Shown(i)
              /\ (i \in InRadius /\ ~Shown(i)) =>
                    \A n \in DOMAIN risk.nearby :
                        risk.nearby[n].distance_km * 10000 <= DistanceTo(records[i]) + 5000

C9_Witness ==
    /\ Done("check_risk")
    /\ \E i \in DOMAIN records :
          /\ records[i].lat # Null /\ records[i].lon # Null
          /\ Cardinality(Nearer(i)) < TopN
          /\ i \notin InRadius
          /\ ~Shown(i)
    /\ risk.nearby # <<>>

\* C10 as stated: whatever the raw fields of the two feeds hold (null, a
\* numeric or non-numeric string), get_all_stations, check_risk and
\* get_flooding_summary return without raising.
C10_NeverRaises == raised = "none"

\* a station entry with a non-empty name and both coordinates
HasName(s) == s.station.k = "str" /\ s.station.s # ""
HasCoordinates(s) ==
    /\ s.geometry.k = "dict"
    /\ s.geometry.x.k \notin {"missing", "null"}
    /\ s.geometry.y.k \notin {"missing", "null"}
Complete == SelectSeq(stations_in, LAMBDA s : HasName(s) /\ HasCoordinates(s))

\* C11 as stated: the records of get_all_stations are, one for one and in
\* the order of the input, the station entries that have a non-empty name
\* and coordinates; nothing else is in the output and nothing is reordered.
C11_RecordsAreTheCompleteEntriesInOrder ==
    Done("get_all_stations") =>
        /\ Len(records) = Len(Complete)
        /\ \A i \in DOMAIN records :
              i \in DOMAIN Complete =>
                  /\ records[i].name = Complete[i].station.s
                  /\ records[i].lat = Complete[i].geometry.y
                  /\ records[i].lon = Complete[i].geometry.x

\* C12 as stated: no two records of get_all_stations have the same name,
\* whatever the station entries are.
C12_NamesAreUnique ==
    Done("get_all_stations") =>
        \A i, j \in DOMAIN records : i # j => records[i].name # records[j].name

\* the station entries the loop of get_all_stations turns into a record
Retained(s) == HasName(s) /\ s.geometry.k = "dict" /\ s.geometry.x.k \notin {"missing", "null"}
Named(list, name) == {i \in DOMAIN list : list[i].name = name}

\* C12 (amended): get_all_stations returns one record per retained station
\* entry and never merges entries: a name occurs in the records as often as
\* it occurs among the retained entries, so the names of the records are
\* distinct exactly when those of the retained entries are.
C12_OneRecordPerEntry ==
    Done("get_all_stations") =>
        LET entries == SelectSeq(stations_in, Retained)
        IN  /\ Len(records) = Len(entries)
            /\ \A i \in DOMAIN records :
                  i \in DOMAIN entries => records[i].name = entries[i].station.s
            /\ (\A i, j \in DOMAIN records : i # j => records[i].name # records[j].name)
                  <=> (\A i, j \in DOMAIN entries :
                          i # j => entries[i].station # entries[j].station)

C12_Witness ==
    /\ Done("get_all_stations")
    /\ Len(records) = MaxStations
    /\ records[1].name = records[MaxStations].name
    /\ HasCoordinates(stations_in[1]) /\ HasCoordinates(stations_in[MaxStations])

\* the features with both coordinates, their distance to the point, and
\* the place of each in the stable ascending order of distance
Candidates == {i \in DOMAIN stations_in : HasCoordinates(stations_in[i])}
DistOf(i) ==
    haversine(args.lat, args.lon, stations_in[i].geometry.y.x.v, stations_in[i].geometry.x.x.v)
Rank(i) ==
    1 + Cardinality({j \in Candidates :
                        \/ DistOf(j) < DistOf(i)
                        \/ DistOf(j) = DistOf(i) /\ j < i})

\* C13: find_nearest_stations(features, lat, lon, n) returns the first n
\* entries of the stable ascending-distance order of the features with both
\* coordinates: a feature without a coordinate is never returned, features
\* at the same distance keep their input order, and with fewer than n
\* candidates all are returned (none: the empty list).
C13_FirstNOfStableDistanceOrder ==
    pc = "find_nearest_stations" =>
        /\ Len(nearest) = IF Cardinality(Candidates) < args.n
                          THEN Cardinality(Candidates) ELSE args.n
        /\ \A k \in DOMAIN nearest :
              \E i \in Candidates :
                  /\ Rank(i) = k
                  /\ nearest[k].feature = stations_in[i]
                  /\ nearest[k].dist_km = DistOf(i)

C13_Witness ==
    /\ pc = "find_nearest_stations"
    /\ Cardinality(Candidates) > args.n
    /\ Len(nearest) = 2
    /\ nearest[1].dist_km = nearest[2].dist_km
    /\ nearest[1].feature.geometry # nearest[2].feature.geometry

\* C14 as stated: the nearby list of check_risk holds the stations with a
\* coordinate that lie within radius_km of the point (the boundary
\* included), whatever their status, in ascending order of their computed
\* distance: of two entries the earlier is not farther from the point.
C14_NearbyByComputedDistance ==
    (Done("check_risk") /\ Cardinality(InRadius) <= TopN) =>
        /\ Len(risk.nearby) = Cardinality(InRadius)
        /\ \A i \in InRadius : Shown(i)
        /\ \A m, n \in DOMAIN risk.nearby :
              m < n => DistanceTo(risk.nearby[m].rec) <= DistanceTo(risk.nearby[n].rec)

Tiers == {"NORMAL", "ALERT", "MINOR_FLOOD", "MAJOR_FLOOD"}

\* C15 as stated: when a station within the radius has one of the four
\* tiers as its status, the summary of check_risk names a station within
\* the radius and its distance; when the worst status is NORMAL, that
\* station is a NORMAL one and none of the NORMAL ones is nearer.
C15_SummaryAlwaysNamesAStation ==
    (Done("check_risk") /\ \E i \in InRadius : records[i].status \in Tiers)
    => /\ risk.summary.k = "station"
       /\ \E i \in InRadius :
             /\ records[i].name = risk.summary.name
             /\ RoundTenth(DistanceTo(records[i])) = risk.summary.distance_km
       /\ risk.risk_level = "LOW" =>
             /\ risk.summary.status = "NORMAL"
             /\ \A i \in InRadius :
                   records[i].status = "NORMAL"
                       => risk.summary.distance_km <= RoundTenth(DistanceTo(records[i]))

\* the worst status among the stations within the radius
WorstInRadius ==
    IF \E i \in InRadius : records[i].status = "MAJOR_FLOOD" THEN "MAJOR_FLOOD"
    ELSE IF \E i \in InRadius : records[i].status = "MINOR_FLOOD" THEN "MINOR_FLOOD"
    ELSE IF \E i \in InRadius : records[i].status = "ALERT" THEN "ALERT"
    ELSE "NORMAL"

\* C15 (amended): when a station within the radius is in ALERT, MINOR_FLOOD
\* or MAJOR_FLOOD, the summary names a station within the radius that has
\* the worst status found, with that status and its rounded distance; when
\* the worst status is NORMAL, or nothing is in range, the summary names no
\* station.
C15_SummaryNamesAStationOnAlert ==
    Done("check_risk") =>
        IF WorstInRadius = "NORMAL" THEN risk.summary = NoSummary
        ELSE /\ risk.summary.k = "station"
             /\ risk.summary.status = WorstInRadius
             /\ \E i \in InRadius :
                   /\ records[i].name = risk.summary.name
                   /\ records[i].status = WorstInRadius
                   /\ RoundTenth(DistanceTo(records[i])) = risk.summary.distance_km

C15_Witness ==
    /\ Done("check_risk")
    /\ \E i \in InRadius : records[i].status = "NORMAL"
    /\ risk.risk_level = "LOW"
    /\ risk.summary = NoSummary

\* a basin label that is missing, null, empty or blanks only
Blank(b) == b.k \in {"missing", "null"} \/ (b.k = "str" /\ b.s \in {"", "  "})
Entries == SelectSeq(stations_in, Retained)

\* C16 as stated: a record whose station entry has a blank basin label has
\* basin "Unknown" in the output of get_all_stations.
C16_BlankBasinIsUnknown ==
    Done("dashboard") =>
        \A i \in DOMAIN records :
            Blank(Entries[i].basin) => records[i].basin = "Unknown"

\* C16 (amended): a record whose station entry has a blank basin label has
\* the empty string as basin in the output of get_all_stations, and any
\* other label is kept with its surrounding blanks removed; "Unknown" is the
\* key under which the dashboard groups the records with an empty basin.
C16_BlankBasinIsEmpty ==
    Done("dashboard") =>
        \A i \in DOMAIN records :
            IF Blank(Entries[i].basin)
            THEN /\ records[i].basin = ""
                 /\ "Unknown" \in DOMAIN dashboard.by_basin
                 /\ \E n \in DOMAIN dashboard.by_basin["Unknown"] :
                       dashboard.by_basin["Unknown"][n] = records[i]
            ELSE /\ records[i].basin \notin {"", "Unknown"}
                 /\ records[i].basin \in DOMAIN dashboard.by_basin
                 /\ records[i].basin = IF Entries[i].basin.s = " Kalu Ganga "
                                       THEN "Kalu Ganga" ELSE Entries[i].basin.s

C16_Witness ==
    /\ Done("dashboard")
    /\ Len(records) = MaxStations
    /\ Entries[1].basin = Str("  ")
    /\ Entries[MaxStations].basin \in {Null, Missing}
    /\ Len(dashboard.by_basin["Unknown"]) = MaxStations

Flooding == {i \in DOMAIN records : records[i].status \in Flood}
Count(st) == Cardinality({i \in DOMAIN records : records[i].status = st})

\* C17: the summary agrees with the records: flooding_stations holds the
\* records in MAJOR_FLOOD or MINOR_FLOOD, each once, and nothing else;
\* major_flood + minor_flood is its length; the four counts add up to at
\* most total_stations, and to exactly that when no record is NO_DATA or
\* UNKNOWN; affected_basins is the set of the non-blank basin labels of the
\* flooding records.
C17_SummaryAgreesWithRecords ==
    Done("get_flooding_summary") =>
        /\ Len(summary.flooding_stations) = Cardinality(Flooding)
        /\ \A i \in Flooding :
              \E k \in DOMAIN summary.flooding_stations :
                  /\ summary.flooding_stations[k].name = records[i].name
                  /\ summary.flooding_stations[k].status = records[i].status
                  /\ summary.flooding_stations[k].basin = records[i].basin
                  /\ summary.flooding_stations[k].water_level = records[i].water_level
        /\ summary.major_flood = Count("MAJOR_FLOOD")
        /\ summary.minor_flood = Count("MINOR_FLOOD")
        /\ summary.alert = Count("ALERT")
        /\ summary.normal = Count("NORMAL")
        /\ summary.major_flood + summary.minor_flood = Len(summary.flooding_stations)
        /\ summary.total_stations = Len(records)
        /\ summary.major_flood + summary.minor_flood + summary.alert + summary.normal
              <= summary.total_stations
        /\ (summary.major_flood + summary.minor_flood + summary.alert + summary.normal
              = summary.total_stations)
              <=> (\A i \in DOMAIN records : records[i].status \notin {"NO_DATA", "UNKNOWN"})
        /\ summary.affected_basins =
              {records[i].basin : i \in {j \in Flooding : records[j].basin # ""}}

C17_Witness ==
    /\ Done("get_flooding_summary")
    /\ Len(records) = MaxStations
    /\ Len(summary.flooding_stations) = MaxStations
    /\ summary.major_flood = 1
    /\ \E i \in Flooding : records[i].basin = ""
    /\ summary.affected_basins = {"Kalu Ganga"}

\* a value that float() turns into NaN or an infinity
NonFinite(v) ==
    \/ v.k = "num" /\ v.x.f # "fin"
    \/ v.k = "str" /\ v.s \in {"nan", "inf"}

\* C18 as stated: when one of the four inputs parses as NaN or as an
\* infinity, given as a float or as a string, both classifiers answer
\* UNKNOWN, never a flood tier.
C18_NonFiniteIsUnknown ==
    (pc = "classify" /\ (NonFinite(args.wl) \/ NonFinite(args.alert)
                         \/ NonFinite(args.minor) \/ NonFinite(args.major)))
    => classified = [a |-> "UNKNOWN", b |-> "UNKNOWN"]

\* C19: by the distance function of either module, a point is at distance
\* 0 from itself and a is as far from b as b is from a.
C19_ZeroAndSymmetric ==
    pc = "haversine" =>
        /\ measured.engine.aa = 0 /\ measured.engine.bb = 0
        /\ measured.engine.ab = measured.engine.ba
        /\ measured.lookup.aa = 0 /\ measured.lookup.bb = 0
        /\ measured.lookup.ab = measured.lookup.ba

C19_Witness ==
    /\ pc = "haversine"
    /\ args.lat < args.lat2 /\ args.lon > args.lon2
    /\ measured.engine.ab > 0
    /\ measured.engine.ba = measured.engine.ab
    /\ measured.engine.aa = 0

\* C20: the classifier of the engine and the classifier of the lookup tool
\* give the same status on every 4-tuple of raw values: numbers, numeric
\* and other strings, None.
C20_ClassifiersAgree ==
    pc = "classify" => classified.a = classified.b

C20_Witness ==
    /\ pc = "classify"
    /\ args.wl = Num(Fin(0)) /\ args.alert = Str("1")
    /\ args.minor = Num(Fin(2)) /\ args.major = Num(Fin(3))
    /\ classified = [a |-> "NORMAL", b |-> "NORMAL"]

\* C21: when a feature has both coordinates, find_nearest_station returns
\* the feature and the distance of the first entry of
\* find_nearest_stations(features, lat, lon, 1): a feature at the least
\* distance, the earliest in the input among those; when none has both
\* coordinates it raises RuntimeError and the ranking is the empty list.
C21_NearestAgreesWithRanking ==
    pc = "find_nearest_station" =>
        IF Candidates = {}
        THEN raised = "RuntimeError" /\ nearest = <<>>
        ELSE /\ raised = "none"
             /\ Len(nearest) = 1
             /\ best.feature = nearest[1].feature
             /\ best.dist_km = nearest[1].dist_km
             /\ \E i \in Candidates :
                   /\ Rank(i) = 1
                   /\ best.feature = stations_in[i]
                   /\ best.dist_km = DistOf(i)

C21_Witness ==
    /\ pc = "find_nearest_station"
    /\ raised = "none"
    /\ Len(stations_in) = 3
    /\ best.feature = stations_in[2]
    /\ \E i \in Candidates : i = 3 /\ DistOf(i) = best.dist_km
    /\ 1 \in Candidates

\* a <= b on Python floats
FloatLe(a, b) == a.f # "nan" /\ b.f # "nan" /\ ~FloatLt(b, a)
Severity(status) ==
    CASE status = "NORMAL" -> 0
      [] status = "ALERT" -> 1
      [] status = "MINOR_FLOOD" -> 2
      [] status = "MAJOR_FLOOD" -> 3
      [] OTHER -> -1

\* C22: for fixed numeric thresholds, in any order, the tier does not
\* decrease with the water level: when wl1 <= wl2, the tier of wl1 is not
\* more severe than the tier of wl2 in NORMAL < ALERT < MINOR_FLOOD <
\* MAJOR_FLOOD, with either classifier.
C22_MonotoneInWaterLevel ==
    (pc = "classify_pair" /\ FloatLe(ToFloat(args.wl).x, ToFloat(args.wl2).x))
    => /\ Severity(pair.first.a) >= 0
       /\ Severity(pair.first.a) <= Severity(pair.second.a)
       /\ Severity(pair.first.b) >= 0
       /\ Severity(pair.first.b) <= Severity(pair.second.b)

C22_Witness ==
    /\ pc = "classify_pair"
    /\ args.alert = Num(Fin(3)) /\ args.minor = Num(Fin(1)) /\ args.major = Num(Fin(0))
    /\ args.wl = Num(Fin(2)) /\ args.wl2 = Num(Fin(3))
    /\ pair.first.a = "NORMAL" /\ pair.second.a = "MAJOR_FLOOD"

\* the place in records of the entry of flooding_stations at index k
RecordOf(k) ==
    CHOOSE i \in DOMAIN records : records[i].name = summary.flooding_stations[k].name

\* C23 as stated: in flooding_stations every MAJOR_FLOOD entry stands before
\* every MINOR_FLOOD entry, within each of the two tiers no entry stands
\* before an entry with a higher water level, and entries of a tier with
\* the same water level stand in their order in the records.
C23_FloodingStationsOrdered ==
    Done("get_flooding_summary") =>
        \A i, j \in DOMAIN summary.flooding_stations :
            i < j =>
                LET a == summary.flooding_stations[i]
                    b == summary.flooding_stations[j]
                IN  /\ ~(a.status = "MINOR_FLOOD" /\ b.status = "MAJOR_FLOOD")
                    /\ a.status = b.status =>
                          /\ ~FloatLt(a.water_level.x, b.water_level.x)
                          /\ a.water_level = b.water_level => RecordOf(i) < RecordOf(j)

\* The same order for the summaries in which no water level is NaN.
C23_OrderedWithoutNaN ==
    (\A k \in DOMAIN summary.flooding_stations :
        summary.flooding_stations[k].water_level # Num(NaN))
    => C23_FloodingStationsOrdered

\* Three MAJOR_FLOOD entries, the second with the water level NaN, the
\* first with a lower water level than the third.
C23_NaNBetween ==
    /\ Done("get_flooding_summary")
    /\ Len(summary.flooding_stations) = 3
    /\ \A k \in 1..3 : summary.flooding_stations[k].status = "MAJOR_FLOOD"
    /\ summary.flooding_stations[2].water_level = Num(NaN)
    /\ FloatLt(summary.flooding_stations[1].water_level.x,
               summary.flooding_stations[3].water_level.x)

RECURSIVE Concat(_)
Concat(pages) == IF pages = <<>> THEN <<>> ELSE Head(pages) \o Concat(Tail(pages))

\* a page that ends the loop: empty, or shorter than the page size
EndsLoop(page) == Len(page) = 0 \/ Len(page) < Batch

InLoop == pc = "fetching_rivers"
Returned == pc = "_fetch_rivers_paginated"

\* The requests so far are at the offsets 0, Batch, 2 * Batch, ... in this
\* order; no page but the last ends the loop, and the loop has ended when
\* and only when the last page does (or the request raised); the features
\* collected are the pages one after the other in the order of the
\* requests, each feature of each page once.
RiversInOrder ==
    (InLoop \/ Returned) =>
        /\ \A k \in DOMAIN rivers.requests : rivers.requests[k] = (k - 1) * Batch
        /\ Len(rivers.requests) = Len(rivers.pages) + (IF raised = "none" THEN 0 ELSE 1)
        /\ \A k \in DOMAIN rivers.pages :
              EndsLoop(rivers.pages[k]) => k = Len(rivers.pages) /\ Returned
        /\ (Returned /\ raised = "none") =>
              rivers.pages # <<>> /\ EndsLoop(rivers.pages[Len(rivers.pages)])
        /\ raised = "none" => rivers.all_features = Concat(rivers.pages)
        /\ raised = "none" =>
              \A k \in DOMAIN rivers.pages : \A i \in DOMAIN rivers.pages[k] :
                  Cardinality({j \in DOMAIN rivers.all_features :
                                  rivers.all_features[j] = rivers.pages[k][i]}) = 1
        /\ Len(rivers.requests) <= MaxPages + 1

\* C24: the river pagination loop requests the offsets 0, 1000, 2000, ...
\* in order and stops after the first page that is empty or shorter than
\* 1000 features; with a server that eventually returns such a page the
\* call ends, and its result is all the fetched pages one after the other
\* in the order of the requests, each feature of each page exactly once.
C24_PagesInOrderAndLoopEnds ==
    /\ []RiversInOrder
    /\ InLoop ~> Returned

\* Three full pages, then a short one that is not empty.
C24_Witness ==
    /\ Returned /\ raised = "none"
    /\ Len(rivers.requests) = 4
    /\ rivers.requests[4] = 3 * Batch
    /\ \A k \in 1..3 : Len(rivers.pages[k]) = Batch
    /\ Len(rivers.pages[4]) = Batch - 1
    /\ Len(rivers.all_features) = 4 * Batch - 1

====
